---------------------------- MODULE Spec2Model ----------------------------
(***************************************************************************)
(* Genetic-algorithm course scheduler (src/genetic_scheduler.py).          *)
(*                                                                         *)
(* Conventions                                                             *)
(*  - Indices are the program's 0-based values; a Python list l is a TLA+  *)
(*    sequence and l[i] is written At(l, i).                               *)
(*  - Fitness is a sum of the terms 0.5, 0.4, 0.3, 0.25, 0.2 and 0.1, all  *)
(*    multiples of 0.05: a fitness value f is held as the integer 20 * f   *)
(*    (exact arithmetic; float rounding of the sums is not modelled).      *)
(*  - Averages, improvements and rates are exact fractions [num, den].     *)
(*  - The module-level generator rng (line 14) is unseeded: its stream is  *)
(*    an input of the run.  It is modelled as a generator state drawn from *)
(*    a bounded set of seeds, advanced by a fixed congruential step that   *)
(*    stands in for PCG64; every draw of the code consumes the stream in   *)
(*    the code's order.                                                    *)
(***************************************************************************)
EXTENDS Integers, Sequences, FiniteSets, TLC

VARIABLES
    catalog,            \* ACTIVITIES / ROOMS / TIMES / FACILITATORS (lines 43-74)
    config,             \* the GA parameters (lines 77-81) and the loop's limits
    rng,                \* state of the module-level generator (line 14)
    pc,                 \* position of the running script
    population,         \* run_genetic_algorithm: population
    generation,         \* run_genetic_algorithm: generation
    mutation_rate,      \* run_genetic_algorithm: mutation_rate
    history,            \* the four *_history lists, one record per entry
    previous_avg_fitness,
    fitness_scores,     \* fitness_scores of the current loop iteration
    improvement,        \* improvement of the current loop iteration
    next_generation,    \* next_generation being filled
    result,             \* (best_schedule, best_fitness_final) once returned
    trace,              \* observation of the last step (operands and results)
    gui,                \* gui.py: the status label, the patched chart printer
                        \* and the output files open for writing
    threads             \* gui.py: the threads started by the Run button

vars == <<catalog, config, rng, pc, population, generation, mutation_rate,
          history, previous_avg_fitness, fitness_scores, improvement,
          next_generation, result, trace, gui, threads>>

\* the window and its threads, untouched by a run of the script
GuiFrame == <<gui, threads>>

\* gui.py lines 32 and 47-51: the window as built, no thread started;
\* print_fitness_chart is the function of genetic_scheduler.py
NoGui == [status |-> "Idle...", print_fitness_chart |-> "cli", open_files |-> {}]

-----------------------------------------------------------------------------
(* Python list helpers *)

At(l, i) == l[i + 1]

Range(l) == {l[i] : i \in 1..Len(l)}

Contains(l, x) == \E i \in 1..Len(l) : l[i] = x

Abs(x) == IF x < 0 THEN -x ELSE x

\* The element of a one-element set.  A loop is written
\*    Only({loop(st1, i1) : st1 \in {body(st, i)}, i1 \in {i + 1}})
\* so that each iteration works on values: TLC evaluates an operator argument
\* anew at each use, and a loop passing expressions on would nest them.
Only(set) == CHOOSE x \in set : TRUE

\* sum(l), from position i on
RECURSIVE SumFrom(_, _)
SumFrom(l, i) ==
    IF i > Len(l) THEN 0 ELSE Only({l[i] + SumFrom(l, i1) : i1 \in {i + 1}})

SumSeq(l) == Only({SumFrom(v, 1) : v \in {l}})

\* max(l) and min(l) of a non-empty list
MaxSeq(l) ==
    Only({CHOOSE m \in values : \A x \in values : m >= x : values \in {Range(l)}})

MinSeq(l) ==
    Only({CHOOSE m \in values : \A x \in values : m <= x : values \in {Range(l)}})

\* the indices 0..n-1 of range(n), as a sequence
Indices(n) == [i \in 1..n |-> i - 1]

\* number of elements of the sequence l that satisfy Test
Count(l, Test(_)) == Cardinality({i \in 1..Len(l) : Test(l[i])})

-----------------------------------------------------------------------------
(* Domain catalog, lines 17-74 *)

Activity(name, enrollment, preferred, other) ==
    [name |-> name, enrollment |-> enrollment,
     preferred_facilitators |-> preferred, other_facilitators |-> other]

\* building is the first word of name: the only part startswith() looks at
Room(building, number, capacity) ==
    [name |-> <<building, number>>, capacity |-> capacity]

ReferenceCatalog ==
    [ACTIVITIES |-> <<
        Activity("SLA101A", 40, <<"Glen", "Lock", "Banks">>, <<"Numen", "Richards", "Shaw", "Singer">>),
        Activity("SLA101B", 35, <<"Glen", "Lock", "Banks">>, <<"Numen", "Richards", "Shaw", "Singer">>),
        Activity("SLA191A", 45, <<"Glen", "Lock", "Banks">>, <<"Numen", "Richards", "Shaw", "Singer">>),
        Activity("SLA191B", 40, <<"Glen", "Lock", "Banks">>, <<"Numen", "Richards", "Shaw", "Singer">>),
        Activity("SLA201", 60, <<"Glen", "Banks", "Zeldin", "Lock", "Singer">>, <<"Richards", "Uther", "Shaw">>),
        Activity("SLA291", 50, <<"Glen", "Banks", "Zeldin", "Lock", "Singer">>, <<"Richards", "Uther", "Shaw">>),
        Activity("SLA303", 25, <<"Glen", "Zeldin">>, <<"Banks">>),
        Activity("SLA304", 20, <<"Singer", "Uther">>, <<"Richards">>),
        Activity("SLA394", 15, <<"Tyler", "Singer">>, <<"Richards", "Zeldin">>),
        Activity("SLA449", 30, <<"Tyler", "Zeldin", "Uther">>, <<"Zeldin", "Shaw">>),
        Activity("SLA451", 90, <<"Lock", "Banks", "Zeldin">>, <<"Tyler", "Singer", "Shaw", "Glen">>) >>,
     ROOMS |-> <<
        Room("Beach", "201", 18),
        Room("Beach", "301", 25),
        Room("Frank", "119", 95),
        Room("Loft", "206", 55),
        Room("Loft", "310", 48),
        Room("James", "325", 110),
        Room("Roman", "201", 40),
        Room("Roman", "216", 80),
        Room("Slater", "003", 32) >>,
     TIMES |-> <<"10 AM", "11 AM", "12 PM", "1 PM", "2 PM", "3 PM">>,
     FACILITATORS |-> <<"Lock", "Glen", "Banks", "Richards", "Shaw", "Singer",
                        "Uther", "Tyler", "Numen", "Zeldin">>]

ACTIVITIES == catalog.ACTIVITIES
ROOMS == catalog.ROOMS
TIMES == catalog.TIMES
FACILITATORS == catalog.FACILITATORS

\* room_name.startswith(prefix)
startswith(room_name, prefix) == room_name[1] = prefix

-----------------------------------------------------------------------------
(* The generator, line 14.  A draw returns [val, rng]: the value drawn and *)
(* the generator state after the draw.                                     *)

RngModulus == 65537
RngMultiplier == 75
RngIncrement == 74

rng_step(s) == (RngMultiplier * s + RngIncrement) % RngModulus

\* a draw that includes the upper bound: one value of low..high
rng_integers_Inclusive(s, low, high) ==
    LET s1 == rng_step(s) IN [val |-> low + (s1 % (high - low + 1)), rng |-> s1]

\* rng.integers(low, high): one value of low..high-1
rng_integers(s, low, high) ==
    LET s1 == rng_step(s) IN [val |-> low + (s1 % (high - low)), rng |-> s1]

\* rng.random() < rate, rate the fraction [num, den]: the draw is s1/RngModulus
rng_random_below(s, rate) ==
    LET s1 == rng_step(s) IN [val |-> s1 * rate.den < rate.num * RngModulus, rng |-> s1]

\* lst without its element at position j (1-based)
without(lst, j) == SubSeq(lst, 1, j - 1) \o SubSeq(lst, j + 1, Len(lst))

\* the remaining draws of rng.choice: st.pool the values not yet drawn,
\* st.val the values drawn so far
RECURSIVE rng_choice_from(_, _)
rng_choice_from(st, size) ==
    IF size = 0 THEN [val |-> st.val, rng |-> st.rng]
    ELSE Only({Only({rng_choice_from(st1, size1) :
                     st1 \in {[pool |-> without(st.pool, d.val + 1),
                               val |-> Append(st.val, st.pool[d.val + 1]),
                               rng |-> d.rng]},
                     size1 \in {size - 1}}) :
               d \in {rng_integers(st.rng, 0, Len(st.pool))}})

\* rng.choice(n, size=size, replace=False): size distinct values of 0..n-1,
\* in the order drawn
rng_choice(s, n, size) ==
    rng_choice_from([pool |-> Indices(n), val |-> <<>>, rng |-> s], size)

-----------------------------------------------------------------------------
(* Schedule, lines 33-39, and create_random_schedule, lines 84-92 *)

\* Schedule(num_activities)
Schedule(num_activities) ==
    [assignments |-> [i \in 1..num_activities |-> <<0, 0, 0, 0>>]]

\* lines 88-91: the gene of activity i; st is [val |-> schedule, rng |-> state]
random_gene(st, i) ==
    LET room == rng_integers(st.rng, 0, Len(ROOMS))
        time == rng_integers(room.rng, 0, Len(TIMES))
        facilitator == rng_integers(time.rng, 0, Len(FACILITATORS))
    IN  [val |-> [st.val EXCEPT !.assignments[i + 1] =
                    <<i, room.val, time.val, facilitator.val>>],
         rng |-> facilitator.rng]

\* lines 87-91: for i in range(len(ACTIVITIES)), from activity i on
RECURSIVE create_random_schedule_from(_, _)
create_random_schedule_from(st, i) ==
    IF i >= Len(ACTIVITIES) THEN st
    ELSE Only({create_random_schedule_from(st1, i1) :
                    st1 \in {random_gene(st, i)}, i1 \in {i + 1}})

create_random_schedule(s) ==
    create_random_schedule_from([val |-> Schedule(Len(ACTIVITIES)), rng |-> s], 0)

-----------------------------------------------------------------------------
(* Lookup structures of calculate_fitness (lines 102-129) and of           *)
(* get_constraint_violations (lines 298-320).  A gene is the tuple         *)
(* <<activity_idx, room_idx, time_idx, facilitator_idx>>.                  *)

room_of(gene) == gene[2]
time_of(gene) == gene[3]
facilitator_of(gene) == gene[4]

\* enumerate(schedule.assignments): the activity indices, in order
activity_indices(schedule) == Indices(Len(schedule.assignments))

\* (time_idx, room_idx) -> [activity indices]
time_room_activities(schedule) ==
    LET asg == schedule.assignments IN
    [key \in {<<time_of(asg[i]), room_of(asg[i])>> : i \in 1..Len(asg)} |->
        SelectSeq(activity_indices(schedule),
                  LAMBDA a : <<time_of(At(asg, a)), room_of(At(asg, a))>> = key)]

\* (time_idx, facilitator_idx) -> [activity indices]
time_facilitator_activities(schedule) ==
    LET asg == schedule.assignments IN
    [key \in {<<time_of(asg[i]), facilitator_of(asg[i])>> : i \in 1..Len(asg)} |->
        SelectSeq(activity_indices(schedule),
                  LAMBDA a : <<time_of(At(asg, a)), facilitator_of(At(asg, a))>> = key)]

\* facilitator_idx -> count
facilitator_total_activities(schedule) ==
    LET asg == schedule.assignments IN
    [f \in {facilitator_of(asg[i]) : i \in 1..Len(asg)} |->
        Cardinality({i \in 1..Len(asg) : facilitator_of(asg[i]) = f})]

\* the distinct time indices of facilitator f, in the order first met
RECURSIVE time_slots_of(_, _, _, _)
time_slots_of(asg, f, i, acc) ==
    IF i > Len(asg) THEN acc
    ELSE Only({time_slots_of(asg, f, i1, acc1) :
               i1 \in {i + 1},
               acc1 \in {IF facilitator_of(asg[i]) = f /\ ~Contains(acc, time_of(asg[i]))
                         THEN Append(acc, time_of(asg[i])) ELSE acc}})

\* facilitator_idx -> [time indices]
facilitator_time_slots(schedule) ==
    LET asg == schedule.assignments IN
    [f \in {facilitator_of(asg[i]) : i \in 1..Len(asg)} |->
        time_slots_of(asg, f, 1, <<>>)]

\* sorted(l) for a list l of distinct integers
sorted(l) ==
    Only({[i \in 1..Len(v) |->
            CHOOSE x \in values : Cardinality({y \in values : y < x}) = i - 1] \o <<>> :
          v \in {l}, values \in {Range(l)}})

\* next(i for i, a in enumerate(ACTIVITIES) if a.name == name)
activity_index_raises ==
    \E name \in {"SLA101A", "SLA101B", "SLA191A", "SLA191B"} :
        \A i \in 0..(Len(ACTIVITIES) - 1) : At(ACTIVITIES, i).name # name

activity_index(name) ==
    CHOOSE i \in 0..(Len(ACTIVITIES) - 1) :
        /\ At(ACTIVITIES, i).name = name
        /\ \A j \in 0..(i - 1) : At(ACTIVITIES, j).name # name

\* name.startswith("Roman") or name.startswith("Beach")
in_roman_beach(room_idx) ==
    \/ startswith(At(ROOMS, room_idx).name, "Roman")
    \/ startswith(At(ROOMS, room_idx).name, "Beach")

-----------------------------------------------------------------------------
(* calculate_fitness, lines 95-266.  Values are in units of 0.05.          *)

\* lines 137-139
\* the penalty charged once per pair: half of it to each activity of a pair
room_conflict_term_PerPair(schedule, a) ==
    LET g == At(schedule.assignments, a) IN
    -5 * (Len(time_room_activities(schedule)[<<time_of(g), room_of(g)>>]) - 1)

room_conflict_term(schedule, a) ==
    LET g == At(schedule.assignments, a) IN
    IF Len(time_room_activities(schedule)[<<time_of(g), room_of(g)>>]) > 1
    THEN -10 ELSE 0

\* lines 141-149; capacity > 1.5 * enrollment is 2 * capacity > 3 * enrollment
room_size_term(schedule, a) ==
    LET activity == At(ACTIVITIES, a)
        room == At(ROOMS, room_of(At(schedule.assignments, a)))
    IN  IF activity.enrollment > room.capacity THEN -10
        ELSE IF room.capacity > 3 * activity.enrollment THEN -8
        ELSE IF 2 * room.capacity > 3 * activity.enrollment THEN -4
        ELSE 6

\* lines 151-157
preference_term(schedule, a) ==
    LET activity == At(ACTIVITIES, a)
        facilitator == At(FACILITATORS, facilitator_of(At(schedule.assignments, a)))
    IN  IF Contains(activity.preferred_facilitators, facilitator) THEN 10
        ELSE IF Contains(activity.other_facilitators, facilitator) THEN 4
        ELSE -2

\* lines 159-163
slot_load_term(schedule, a) ==
    LET g == At(schedule.assignments, a)
        n == Len(time_facilitator_activities(schedule)[<<time_of(g), facilitator_of(g)>>])
    IN  IF n = 1 THEN 4 ELSE IF n > 1 THEN -4 ELSE 0

\* the rule with the exception the other way round: no penalty for the
\* named facilitator from a total load of 2 on
total_load_adjustment_ExemptFromTwo(facilitator, total_load) ==
    IF total_load > 4 THEN -10
    ELSE IF total_load < 3
         THEN IF facilitator # "Tyler" \/ total_load < 2 THEN -8 ELSE 0
         ELSE 0

\* lines 167-172: the facilitator total-load rule with the name's exception
total_load_adjustment(facilitator, total_load) ==
    IF total_load > 4 THEN -10
    ELSE IF total_load < 3
         THEN IF facilitator # "Tyler" \/ total_load >= 2 THEN -8 ELSE 0
         ELSE 0

\* lines 165-172
total_load_term(schedule, a) ==
    LET f == facilitator_of(At(schedule.assignments, a))
    IN  total_load_adjustment(At(FACILITATORS, f),
                              facilitator_total_activities(schedule)[f])

\* lines 132-172: one iteration of the per-activity loop
activity_fitness(schedule, a) ==
    room_conflict_term(schedule, a) + room_size_term(schedule, a)
    + preference_term(schedule, a) + slot_load_term(schedule, a)
    + total_load_term(schedule, a)

\* activities of facilitator f at time t (lines 184-187)
activities_at_time(schedule, t, f) ==
    SelectSeq(activity_indices(schedule),
              LAMBDA a : /\ time_of(At(schedule.assignments, a)) = t
                         /\ facilitator_of(At(schedule.assignments, a)) = f)

\* lines 192-206: number of (act1, act2) combinations in different building groups
building_separations(schedule, acts1, acts2) ==
    Cardinality({p \in (1..Len(acts1)) \X (1..Len(acts2)) :
        in_roman_beach(room_of(At(schedule.assignments, acts1[p[1]])))
        # in_roman_beach(room_of(At(schedule.assignments, acts2[p[2]])))})

\* the positions i of sorted_times with sorted_times[i+1] - sorted_times[i] == 1
consecutive_positions(sorted_times) ==
    {i \in 0..(Len(sorted_times) - 2) : At(sorted_times, i + 1) - At(sorted_times, i) = 1}

RECURSIVE SumOver(_, _)
SumOver(keys, term) ==
    IF keys = {} THEN 0
    ELSE Only({Only({term[key] + SumOver(rest, term) : rest \in {keys \ {key}}}) :
               key \in {CHOOSE k \in keys : TRUE}})

\* lines 175-206, for one facilitator
consecutive_fitness(schedule, f) ==
    Only({SumOver(consecutive_positions(sorted_times),
                  [i \in consecutive_positions(sorted_times) |->
                    10 - 8 * building_separations(schedule,
                                activities_at_time(schedule, At(sorted_times, i), f),
                                activities_at_time(schedule, At(sorted_times, i + 1), f))]) :
          sorted_times \in {sorted(facilitator_time_slots(schedule)[f])}})

\* lines 224-236: the two sections of one course
sections_fitness(time_a, time_b) ==
    (IF Abs(time_a - time_b) > 4 THEN 10 ELSE 0)
    + (IF time_a = time_b THEN -10 ELSE 0)

\* the pair scored with the bonus of consecutive slots for slots an hour apart
cross_fitness_FullBonusApart(schedule, sla191_idx, sla101_idx) ==
    LET g191 == At(schedule.assignments, sla191_idx)
        g101 == At(schedule.assignments, sla101_idx)
        time_diff == Abs(time_of(g191) - time_of(g101))
    IN  IF time_diff = 1
        THEN 10 + (IF in_roman_beach(room_of(g191)) # in_roman_beach(room_of(g101))
                   THEN -8 ELSE 0)
        ELSE IF time_diff = 2 THEN 10
        ELSE IF time_diff = 0 THEN -5
        ELSE 0

\* lines 243-264: one SLA 191 section against one SLA 101 section
cross_fitness(schedule, sla191_idx, sla101_idx) ==
    LET g191 == At(schedule.assignments, sla191_idx)
        g101 == At(schedule.assignments, sla101_idx)
        time_diff == Abs(time_of(g191) - time_of(g101))
    IN  IF time_diff = 1
        THEN 10 + (IF in_roman_beach(room_of(g191)) # in_roman_beach(room_of(g101))
                   THEN -8 ELSE 0)
        ELSE IF time_diff = 2 THEN 5
        ELSE IF time_diff = 0 THEN -5
        ELSE 0

\* lines 208-264
activity_specific_fitness(schedule) ==
    LET sla101a_idx == activity_index("SLA101A")
        sla101b_idx == activity_index("SLA101B")
        sla191a_idx == activity_index("SLA191A")
        sla191b_idx == activity_index("SLA191B")
        time(idx) == time_of(At(schedule.assignments, idx))
    IN  sections_fitness(time(sla101a_idx), time(sla101b_idx))
        + sections_fitness(time(sla191a_idx), time(sla191b_idx))
        + cross_fitness(schedule, sla191a_idx, sla101a_idx)
        + cross_fitness(schedule, sla191a_idx, sla101b_idx)
        + cross_fitness(schedule, sla191b_idx, sla101a_idx)
        + cross_fitness(schedule, sla191b_idx, sla101b_idx)

calculate_fitness(schedule) ==
    LET acts == activity_indices(schedule)
        facs == DOMAIN facilitator_time_slots(schedule)
    IN  SumSeq([i \in 1..Len(acts) |-> activity_fitness(schedule, acts[i])])
        + SumOver(facs, [f \in facs |-> consecutive_fitness(schedule, f)])
        + activity_specific_fitness(schedule)

-----------------------------------------------------------------------------
(* get_constraint_violations, lines 269-438: the count of each category *)

\* lines 332-340: the room-size key counted for activity a
room_size_key(schedule, a) ==
    LET activity == At(ACTIVITIES, a)
        room == At(ROOMS, room_of(At(schedule.assignments, a)))
    IN  IF activity.enrollment > room.capacity THEN "room_too_small"
        ELSE IF room.capacity > 3 * activity.enrollment THEN "room_too_large_3x"
        ELSE IF 2 * room.capacity > 3 * activity.enrollment THEN "room_too_large_1.5x"
        ELSE "room_good_fit"

\* lines 342-348: the preference key counted for activity a
preference_key(schedule, a) ==
    LET activity == At(ACTIVITIES, a)
        facilitator == At(FACILITATORS, facilitator_of(At(schedule.assignments, a)))
    IN  IF Contains(activity.preferred_facilitators, facilitator)
        THEN "facilitator_preferred"
        ELSE IF Contains(activity.other_facilitators, facilitator)
        THEN "facilitator_other"
        ELSE "facilitator_unlisted"

\* lines 350-354: the per-slot load key counted for activity a
slot_load_key(schedule, a) ==
    LET g == At(schedule.assignments, a)
        n == Len(time_facilitator_activities(schedule)[<<time_of(g), facilitator_of(g)>>])
    IN  IF n = 1 THEN "facilitator_single_slot"
        ELSE IF n > 1 THEN "facilitator_double_booked"
        ELSE "none"

\* lines 358-362: the total-load key counted for a facilitator with this load
total_load_key(facilitator, total_load) ==
    IF total_load > 4 THEN "facilitator_overload_4plus"
    ELSE IF total_load < 3
         THEN IF facilitator # "Tyler" \/ total_load >= 2
              THEN "facilitator_underload_less3" ELSE "none"
         ELSE "none"

\* lines 322-362: the keys incremented by the iteration for activity a
activity_keys(schedule, a) ==
    LET g == At(schedule.assignments, a)
        f == facilitator_of(g)
    IN  (IF Len(time_room_activities(schedule)[<<time_of(g), room_of(g)>>]) > 1
         THEN {"room_conflicts"} ELSE {})
        \cup {room_size_key(schedule, a), preference_key(schedule, a),
              slot_load_key(schedule, a),
              total_load_key(At(FACILITATORS, f),
                             facilitator_total_activities(schedule)[f])}

\* lines 365-369: consecutive pairs of time slots of facilitator f
consecutive_count(schedule, f) ==
    Cardinality(consecutive_positions(sorted(facilitator_time_slots(schedule)[f])))

\* lines 371-388: building penalties counted for facilitator f
consecutive_penalty_count(schedule, f) ==
    LET sorted_times == sorted(facilitator_time_slots(schedule)[f])
        pos == consecutive_positions(sorted_times)
    IN  SumOver(pos, [i \in pos |->
            building_separations(schedule,
                activities_at_time(schedule, At(sorted_times, i), f),
                activities_at_time(schedule, At(sorted_times, i + 1), f))])

\* lines 423-436: the keys incremented for one SLA 191 / SLA 101 combination
cross_keys(schedule, sla191_idx, sla101_idx) ==
    LET g191 == At(schedule.assignments, sla191_idx)
        g101 == At(schedule.assignments, sla101_idx)
        time_diff == Abs(time_of(g191) - time_of(g101))
    IN  IF time_diff = 1
        THEN {"sla101_191_consecutive"} \cup
             (IF in_roman_beach(room_of(g191)) # in_roman_beach(room_of(g101))
              THEN {"sla101_191_consecutive_building_penalty"} ELSE {})
        ELSE IF time_diff = 2 THEN {"sla101_191_separated_1hr"}
        ELSE IF time_diff = 0 THEN {"sla101_191_same_time"}
        ELSE {}

\* lines 273-296
violation_keys ==
    {"room_conflicts", "room_too_small", "room_too_large_1.5x",
     "room_too_large_3x", "room_good_fit", "facilitator_preferred",
     "facilitator_other", "facilitator_unlisted", "facilitator_single_slot",
     "facilitator_double_booked", "facilitator_overload_4plus",
     "facilitator_underload_less3", "facilitator_consecutive_bonus",
     "facilitator_consecutive_building_penalty", "sla101_sections_far_apart",
     "sla101_sections_same_time", "sla191_sections_far_apart",
     "sla191_sections_same_time", "sla101_191_consecutive",
     "sla101_191_consecutive_building_penalty", "sla101_191_separated_1hr",
     "sla101_191_same_time"}

\* the counts, with keys_of the list of the key sets of the activities
violation_counts(schedule, keys_of) ==
    LET facs == DOMAIN facilitator_time_slots(schedule)
        sla101a_idx == activity_index("SLA101A")
        sla101b_idx == activity_index("SLA101B")
        sla191a_idx == activity_index("SLA191A")
        sla191b_idx == activity_index("SLA191B")
        time(idx) == time_of(At(schedule.assignments, idx))
        pairs == {<<sla191a_idx, sla101a_idx>>, <<sla191a_idx, sla101b_idx>>,
                  <<sla191b_idx, sla101a_idx>>, <<sla191b_idx, sla101b_idx>>}
        one(cond) == IF cond THEN 1 ELSE 0
    IN  [key \in violation_keys |->
            Cardinality({i \in 1..Len(keys_of) : key \in keys_of[i]})
            + (IF key = "facilitator_consecutive_bonus"
               THEN SumOver(facs, [f \in facs |-> consecutive_count(schedule, f)])
               ELSE 0)
            + (IF key = "facilitator_consecutive_building_penalty"
               THEN SumOver(facs, [f \in facs |-> consecutive_penalty_count(schedule, f)])
               ELSE 0)
            + (IF key = "sla101_sections_far_apart"
               THEN one(Abs(time(sla101a_idx) - time(sla101b_idx)) > 4) ELSE 0)
            + (IF key = "sla101_sections_same_time"
               THEN one(time(sla101a_idx) = time(sla101b_idx)) ELSE 0)
            + (IF key = "sla191_sections_far_apart"
               THEN one(Abs(time(sla191a_idx) - time(sla191b_idx)) > 4) ELSE 0)
            + (IF key = "sla191_sections_same_time"
               THEN one(time(sla191a_idx) = time(sla191b_idx)) ELSE 0)
            + Cardinality({pr \in pairs : key \in cross_keys(schedule, pr[1], pr[2])})]

get_constraint_violations(schedule) ==
    LET acts == activity_indices(schedule)
    IN  Only({violation_counts(schedule, keys_of) :
              keys_of \in {[i \in 1..Len(acts) |-> activity_keys(schedule, acts[i])]
                           \o <<>>}})

-----------------------------------------------------------------------------
(* Fractions: [num |-> n, den |-> d] with d > 0 stands for n / d.          *)

Frac(n, d) == [num |-> n, den |-> d]

FracLess(x, y) == x.num * y.den < y.num * x.den

\* x / 2
FracHalf(x) == Frac(x.num, 2 * x.den)

-----------------------------------------------------------------------------
(* mutate, lines 441-468.  The call works on two list objects: the input's *)
(* schedule.assignments and the copy mutated.assignments made at line 447. *)
(* st holds both, the generator state, and the (gene, mutation_type) pairs *)
(* resampled so far.                                                       *)

\* lines 456-464: the gene with the field picked by mutation_type set to value
with_field(gene, mutation_type, value) ==
    IF mutation_type = 0 THEN <<gene[1], value, gene[3], gene[4]>>
    ELSE IF mutation_type = 1 THEN <<gene[1], gene[2], value, gene[4]>>
    ELSE <<gene[1], gene[2], gene[3], value>>

\* lines 456-464: the catalog the field picked by mutation_type indexes
field_range(mutation_type) ==
    IF mutation_type = 0 THEN Len(ROOMS)
    ELSE IF mutation_type = 1 THEN Len(TIMES)
    ELSE Len(FACILITATORS)

\* one iteration that writes through to the input's list (no copy taken)
mutate_gene_Aliased(st, i, rate) ==
    LET hit == rng_random_below(st.rng, rate)
    IN  IF ~hit.val THEN [st EXCEPT !.rng = hit.rng]
        ELSE LET mutation_type == rng_integers(hit.rng, 0, 3)
                 value == rng_integers(mutation_type.rng, 0,
                                       field_range(mutation_type.val))
             IN  [st EXCEPT
                    !.mutated[i + 1] = with_field(@, mutation_type.val, value.val),
                    !.schedule[i + 1] = with_field(@, mutation_type.val, value.val),
                    !.rng = value.rng,
                    !.log = Append(@, <<i, mutation_type.val>>)]

\* one iteration that resamples whatever the rate
mutate_gene_IgnoresRate(st, i, rate) ==
    LET hit == rng_random_below(st.rng, rate)
        mutation_type == rng_integers(hit.rng, 0, 3)
        value == rng_integers(mutation_type.rng, 0, field_range(mutation_type.val))
    IN  [st EXCEPT
            !.mutated[i + 1] = with_field(@, mutation_type.val, value.val),
            !.rng = value.rng,
            !.log = Append(@, <<i, mutation_type.val>>)]

\* lines 450-466: one iteration of the loop, for gene i
mutate_gene(st, i, rate) ==
    LET hit == rng_random_below(st.rng, rate)
    IN  IF ~hit.val THEN [st EXCEPT !.rng = hit.rng]
        ELSE LET mutation_type == rng_integers(hit.rng, 0, 3)
                 value == rng_integers(mutation_type.rng, 0,
                                       field_range(mutation_type.val))
             IN  [st EXCEPT
                    !.mutated[i + 1] = with_field(@, mutation_type.val, value.val),
                    !.rng = value.rng,
                    !.log = Append(@, <<i, mutation_type.val>>)]

\* lines 449-466: for i in range(len(mutated.assignments)), from gene i on
RECURSIVE mutate_from(_, _, _)
mutate_from(st, i, rate) ==
    IF i >= Len(st.mutated) THEN st
    ELSE Only({mutate_from(st1, i1, rate) :
                    st1 \in {mutate_gene(st, i, rate)}, i1 \in {i + 1}})

\* mutate(schedule, mutation_rate) with the generator in state s.
\* val: the schedule returned; input: the argument after the call;
\* log: the (gene, mutation_type) pairs resampled; rng: the generator after.
mutate(schedule, rate, s) ==
    LET st == mutate_from([schedule |-> schedule.assignments,
                           mutated |-> schedule.assignments,
                           rng |-> s, log |-> <<>>], 0, rate)
    IN  Only({[val |-> [assignments |-> r.mutated],
               input |-> [assignments |-> r.schedule],
               log |-> r.log, rng |-> r.rng] : r \in {st}})

-----------------------------------------------------------------------------
(* tournament_selection, lines 471-475 *)

\* the last index of the list whose score is the largest
max_by_score_Last(indices, scores) ==
    Only({indices[CHOOSE j \in 1..Len(indices) :
                    /\ At(scores, indices[j]) = best
                    /\ \A k \in (j + 1)..Len(indices) : At(scores, indices[k]) # best] :
          best \in {MaxSeq([j \in 1..Len(indices) |-> At(scores, indices[j])])}})

\* max(indices, key=lambda i: fitness_scores[i]): the first index of the
\* list whose score is the largest
max_by_score(indices, scores) ==
    Only({indices[CHOOSE j \in 1..Len(indices) :
                    /\ At(scores, indices[j]) = best
                    /\ \A k \in 1..(j - 1) : At(scores, indices[k]) # best] :
          best \in {MaxSeq([j \in 1..Len(indices) |-> At(scores, indices[j])])}})

\* tournament_selection(population, fitness_scores) with the generator in
\* state s.  val: the schedule returned.
tournament_selection(pop, scores, s) ==
    Only({Only({[val |-> At(pop, best_idx),
                 tournament_indices |-> d.val,
                 best_idx |-> best_idx,
                 rng |-> d.rng] :
                best_idx \in {max_by_score(d.val, scores)}}) :
          d \in {rng_choice(s, Len(pop), config.TOURNAMENT_SIZE)}})

-----------------------------------------------------------------------------
(* crossover, lines 478-491 *)

\* l[:k] + m[k+1:]
splice_SkipsOne(l, m, k) == SubSeq(l, 1, k) \o SubSeq(m, k + 2, Len(m))

\* l[:k] + m[k:]
splice(l, m, k) == SubSeq(l, 1, k) \o SubSeq(m, k + 1, Len(m))

\* crossover(parent1, parent2) with the generator in state s.
\* val: (child1, child2); parents: the arguments after the call.
crossover(parent1, parent2, s) ==
    Only({[val |-> <<[assignments |-> splice(parent1.assignments,
                                             parent2.assignments, d.val)],
                     [assignments |-> splice(parent2.assignments,
                                             parent1.assignments, d.val)]>>,
           crossover_point |-> d.val,
           parents |-> <<parent1, parent2>>,
           rng |-> d.rng] :
          d \in {rng_integers(s, 1, Len(ACTIVITIES))}})

-----------------------------------------------------------------------------
(* Parameters: lines 77-81 and the literals of run_genetic_algorithm, held  *)
(* in config so that runs of a scaled-down configuration can be explored.  *)

POPULATION_SIZE == config.POPULATION_SIZE
INITIAL_MUTATION_RATE == config.INITIAL_MUTATION_RATE
MIN_GENERATIONS == config.MIN_GENERATIONS
IMPROVEMENT_THRESHOLD == config.IMPROVEMENT_THRESHOLD
TOURNAMENT_SIZE == config.TOURNAMENT_SIZE
\* line 688: if generation >= 1000
MAX_GENERATIONS == config.MAX_GENERATIONS
\* line 664: POPULATION_SIZE // 10
ELITE_DIVISOR == config.ELITE_DIVISOR
\* line 654: generation > 50 and generation % 50 == 0
MUTATION_HALVE_PERIOD == config.MUTATION_HALVE_PERIOD
\* line 655: improvement < 2.0 and mutation_rate > 0.0001
MUTATION_HALVE_TRIGGER == config.MUTATION_HALVE_TRIGGER
MUTATION_FLOOR == config.MUTATION_FLOOR

\* the values the code runs with
ReferenceConfig ==
    [POPULATION_SIZE |-> 500,
     INITIAL_MUTATION_RATE |-> Frac(1, 100),
     MIN_GENERATIONS |-> 100,
     IMPROVEMENT_THRESHOLD |-> Frac(1, 100),
     TOURNAMENT_SIZE |-> 5,
     MAX_GENERATIONS |-> 1000,
     ELITE_DIVISOR |-> 10,
     MUTATION_HALVE_PERIOD |-> 50,
     MUTATION_HALVE_TRIGGER |-> Frac(2, 1),
     MUTATION_FLOOR |-> Frac(1, 10000)]

\* float('-inf'), line 619
NegInf == [num |-> -1, den |-> 0]

-----------------------------------------------------------------------------
(* run_genetic_algorithm, lines 597-736 *)

\* line 609: [create_random_schedule() for _ in range(POPULATION_SIZE)];
\* st is [val |-> the list so far, rng |-> state]
RECURSIVE random_population_from(_, _)
random_population_from(st, n) ==
    IF n = 0 THEN st
    ELSE Only({Only({random_population_from(st1, n1) :
                     st1 \in {[val |-> Append(st.val, c.val), rng |-> c.rng]},
                     n1 \in {n - 1}}) :
               c \in {create_random_schedule(st.rng)}})

\* lines 636-639
improvement_of(gen, avg_fitness, previous) ==
    IF gen > 0
    THEN IF previous.num # 0
         THEN Frac(100 * (avg_fitness.num * previous.den - previous.num * avg_fitness.den),
                   avg_fitness.den * Abs(previous.num))
         ELSE Frac(0, 1)
    ELSE Frac(0, 1)

\* generation > MIN_GENERATIONS
converged_Strict(gen, improv) ==
    /\ gen > MIN_GENERATIONS
    /\ FracLess(improv, IMPROVEMENT_THRESHOLD)
    /\ improv.num >= 0

\* without the test improvement >= 0
converged_IgnoresSign(gen, improv) ==
    /\ gen >= MIN_GENERATIONS
    /\ FracLess(improv, IMPROVEMENT_THRESHOLD)

\* line 648
converged(gen, improv) ==
    /\ gen >= MIN_GENERATIONS
    /\ FracLess(improv, IMPROVEMENT_THRESHOLD)
    /\ improv.num >= 0

\* the adjustment from generation MUTATION_HALVE_PERIOD on
adapted_rate_FromPeriod(gen, improv, rate) ==
    IF /\ gen >= MUTATION_HALVE_PERIOD
       /\ gen % MUTATION_HALVE_PERIOD = 0
       /\ FracLess(improv, MUTATION_HALVE_TRIGGER)
       /\ FracLess(MUTATION_FLOOR, rate)
    THEN FracHalf(rate) ELSE rate

\* lines 654-657: the mutation rate after the adjustment
adapted_rate(gen, improv, rate) ==
    IF /\ gen > MUTATION_HALVE_PERIOD
       /\ gen % MUTATION_HALVE_PERIOD = 0
       /\ FracLess(improv, MUTATION_HALVE_TRIGGER)
       /\ FracLess(MUTATION_FLOOR, rate)
    THEN FracHalf(rate) ELSE rate

\* np.argsort(scores): the indices in ascending order of score, equal scores
\* in index order (the sort of at most 16 elements is an insertion sort)
argsort(scores) ==
    LET n == Len(scores)
        before(x, y) == \/ At(scores, x) < At(scores, y)
                        \/ At(scores, x) = At(scores, y) /\ x < y
    IN  [i \in 1..n |->
            CHOOSE x \in 0..(n - 1) :
                Cardinality({y \in 0..(n - 1) : before(y, x)}) = i - 1]

\* order[:count], the lowest scores
tail_slice_Head(order, count) == SubSeq(order, 1, count)

\* order[-count:]  (order[-0:] is order[0:], the whole list)
tail_slice(order, count) ==
    IF count = 0 \/ count >= Len(order) THEN order
    ELSE SubSeq(order, Len(order) - count + 1, Len(order))

\* line 664
elite_count_of(population_size) == population_size \div ELITE_DIVISOR

\* line 665
elite_indices_of(scores) ==
    tail_slice(argsort(scores), elite_count_of(POPULATION_SIZE))

\* generation >= limit - 1
at_safety_limit_OneEarly(gen) == gen >= MAX_GENERATIONS - 1

\* generation > limit
at_safety_limit_Strict(gen) == gen > MAX_GENERATIONS

\* line 688
at_safety_limit(gen) == gen >= MAX_GENERATIONS

\* lines 609-619
\* rng.integers(0, 0) raises ValueError: drawing a gene from an empty catalog
create_random_schedule_raises ==
    /\ Len(ACTIVITIES) > 0
    /\ Len(ROOMS) = 0 \/ Len(TIMES) = 0 \/ Len(FACILITATORS) = 0

\* rng.choice(n, size, replace=False) raises ValueError when size > n;
\* max() of an empty sample raises ValueError
tournament_selection_raises(pop) ==
    TOURNAMENT_SIZE > Len(pop) \/ TOURNAMENT_SIZE = 0

\* an exception leaving run_genetic_algorithm: nothing catches it
Raised(exception, raised_in) ==
    [exception |-> exception, raised_in |-> raised_in, generation |-> generation]

InitializePopulation ==
    /\ pc = "start"
    /\ ~(POPULATION_SIZE > 0 /\ create_random_schedule_raises)
    /\ \E p \in {random_population_from([val |-> <<>>, rng |-> rng], POPULATION_SIZE)} :
        /\ population' = p.val
        /\ rng' = p.rng
    /\ generation' = 0
    /\ mutation_rate' = INITIAL_MUTATION_RATE
    /\ history' = <<>>
    /\ previous_avg_fitness' = NegInf
    /\ pc' = "loop"
    /\ UNCHANGED <<catalog, config, fitness_scores, improvement, next_generation,
                   result, trace>>
    /\ UNCHANGED GuiFrame

\* lines 622-658: evaluation, metrics, termination check, adaptive mutation
\* line 609 fails in the first create_random_schedule() call
InitializePopulationRaises ==
    /\ pc = "start"
    /\ POPULATION_SIZE > 0
    /\ create_random_schedule_raises
    /\ result' = Raised("ValueError", "create_random_schedule")
    /\ pc' = "raised"
    /\ UNCHANGED <<catalog, config, rng, population, generation, mutation_rate,
                   history, previous_avg_fitness, fitness_scores, improvement,
                   next_generation, trace>>
    /\ UNCHANGED GuiFrame

EvaluateGeneration ==
    /\ pc = "loop"
    /\ Len(population) > 0
    /\ ~activity_index_raises
    /\ \E scores \in {[i \in 1..Len(population) |-> calculate_fitness(population[i])]
                      \o <<>>} :
       \E entry \in {[generation |-> generation,
                      best |-> MaxSeq(scores),
                      avg |-> Frac(SumSeq(scores), Len(scores)),
                      worst |-> MinSeq(scores)]} :
       \E improv \in {improvement_of(generation, entry.avg, previous_avg_fitness)} :
        /\ fitness_scores' = scores
        /\ history' = Append(history, entry)
        /\ improvement' = improv
        /\ IF converged(generation, improv)
           THEN /\ pc' = "converged"
                /\ UNCHANGED mutation_rate
           ELSE /\ pc' = "elitism"
                /\ mutation_rate' = adapted_rate(generation, improv, mutation_rate)
    /\ trace' = [trace EXCEPT !.evaluations = @ + 1]
    /\ UNCHANGED <<catalog, config, rng, population, generation,
                   previous_avg_fitness, next_generation, result>>
    /\ UNCHANGED GuiFrame

\* lines 661-667
\* line 623 fails in the first calculate_fitness() call, or line 625 in
\* max() of no scores
EvaluateGenerationRaises ==
    /\ pc = "loop"
    /\ Len(population) = 0 \/ activity_index_raises
    /\ result' = IF Len(population) > 0
                 THEN Raised("StopIteration", "calculate_fitness")
                 ELSE Raised("ValueError", "max")
    /\ pc' = "raised"
    /\ UNCHANGED <<catalog, config, rng, population, generation, mutation_rate,
                   history, previous_avg_fitness, fitness_scores, improvement,
                   next_generation, trace>>
    /\ UNCHANGED GuiFrame

Elitism ==
    /\ pc = "elitism"
    /\ \E elite_indices \in {elite_indices_of(fitness_scores)} :
        /\ next_generation' =
                [j \in 1..Len(elite_indices) |-> At(population, elite_indices[j])]
        /\ trace' = [trace EXCEPT !.reproductions = @ + 1,
                                  !.elite_indices = elite_indices,
                                  !.offspring = 0]
    /\ pc' = "reproduce"
    /\ UNCHANGED <<catalog, config, rng, population, generation, mutation_rate,
                   history, previous_avg_fitness, fitness_scores, improvement,
                   result>>
    /\ UNCHANGED GuiFrame

\* lines 670-681: one iteration of the while loop
\* the iteration without the test of line 680: both children appended
Reproduce_AppendsBoth ==
    /\ pc = "reproduce"
    /\ Len(next_generation) < POPULATION_SIZE
    /\ ~tournament_selection_raises(population)
    /\ \E parent1 \in {tournament_selection(population, fitness_scores, rng)} :
       \E parent2 \in {tournament_selection(population, fitness_scores, parent1.rng)} :
       \E children \in {crossover(parent1.val, parent2.val, parent2.rng)} :
       \E child1 \in {mutate(children.val[1], mutation_rate, children.rng)} :
       \E child2 \in {mutate(children.val[2], mutation_rate, child1.rng)} :
        /\ rng' = child2.rng
        /\ next_generation' = next_generation \o <<child1.val, child2.val>>
        /\ trace' = [trace EXCEPT !.offspring = @ + 2,
                        !.mutations = @ + Len(child1.log) + Len(child2.log),
                        !.tournaments = <<parent1, parent2>>]
    /\ UNCHANGED <<catalog, config, pc, population, generation, mutation_rate,
                   history, previous_avg_fitness, fitness_scores, improvement,
                   result>>
    /\ UNCHANGED GuiFrame

Reproduce ==
    /\ pc = "reproduce"
    /\ Len(next_generation) < POPULATION_SIZE
    /\ ~tournament_selection_raises(population)
    /\ \E parent1 \in {tournament_selection(population, fitness_scores, rng)} :
       \E parent2 \in {tournament_selection(population, fitness_scores, parent1.rng)} :
       \E children \in {crossover(parent1.val, parent2.val, parent2.rng)} :
       \E child1 \in {mutate(children.val[1], mutation_rate, children.rng)} :
       \E child2 \in {mutate(children.val[2], mutation_rate, child1.rng)} :
        /\ rng' = child2.rng
        /\ IF Len(next_generation) + 1 < POPULATION_SIZE
           THEN /\ next_generation' = next_generation \o <<child1.val, child2.val>>
                /\ trace' = [trace EXCEPT !.offspring = @ + 2,
                                !.mutations = @ + Len(child1.log) + Len(child2.log),
                                !.tournaments = <<parent1, parent2>>]
           ELSE /\ next_generation' = Append(next_generation, child1.val)
                /\ trace' = [trace EXCEPT !.offspring = @ + 1,
                                !.mutations = @ + Len(child1.log),
                                !.tournaments = <<parent1, parent2>>]
    /\ UNCHANGED <<catalog, config, pc, population, generation, mutation_rate,
                   history, previous_avg_fitness, fitness_scores, improvement,
                   result>>
    /\ UNCHANGED GuiFrame

\* lines 683-690: the while loop is left; replace, advance, safety limit
\* line 672 fails in the first tournament_selection() call of the fill loop
ReproduceRaises ==
    /\ pc = "reproduce"
    /\ Len(next_generation) < POPULATION_SIZE
    /\ tournament_selection_raises(population)
    /\ result' = Raised("ValueError", "tournament_selection")
    /\ pc' = "raised"
    /\ UNCHANGED <<catalog, config, rng, population, generation, mutation_rate,
                   history, previous_avg_fitness, fitness_scores, improvement,
                   next_generation, trace>>
    /\ UNCHANGED GuiFrame

ReplacePopulation ==
    /\ pc = "reproduce"
    /\ ~(Len(next_generation) < POPULATION_SIZE)
    /\ population' = next_generation
    /\ previous_avg_fitness' = history[Len(history)].avg
    /\ generation' = generation + 1
    /\ pc' = IF at_safety_limit(generation') THEN "limit" ELSE "loop"
    /\ UNCHANGED <<catalog, config, rng, mutation_rate, history, fitness_scores,
                   improvement, next_generation, result, trace>>
    /\ UNCHANGED GuiFrame

\* np.argmax(scores): the first index of the largest score
argmax(scores) ==
    CHOOSE i \in 0..(Len(scores) - 1) :
        /\ At(scores, i) = MaxSeq(scores)
        /\ \A j \in 0..(i - 1) : At(scores, j) # MaxSeq(scores)

\* lines 692-736: the final results
FinalResults ==
    /\ pc \in {"converged", "limit"}
    /\ \E final_fitness_scores \in
            {[i \in 1..Len(population) |-> calculate_fitness(population[i])] \o <<>>} :
       \E best_idx \in {argmax(final_fitness_scores)} :
        result' = [best_schedule |-> At(population, best_idx),
                   best_fitness_final |-> At(final_fitness_scores, best_idx),
                   generation |-> generation,
                   stopped_by |-> pc]
    /\ pc' = "done"
    /\ UNCHANGED <<catalog, config, rng, population, generation, mutation_rate,
                   history, previous_avg_fitness, fitness_scores, improvement,
                   next_generation, trace>>
    /\ UNCHANGED GuiFrame

-----------------------------------------------------------------------------
(* The runs explored *)

\* number of generator seeds explored
NumSeeds == 3
\* POPULATION_SIZE of the scaled runs (500 in the code), and a population
\* smaller than ELITE_DIVISOR
ScaledPopulation == 10
TinyPopulation == 5
\* MIN_GENERATIONS, MAX_GENERATIONS and MUTATION_HALVE_PERIOD of the scaled
\* runs (100, 1000 and 50 in the code)
ScaledMinGenerations == 10
ScaledMaxGenerations == 40
ScaledHalvePeriod == 5

Seeds == 1..NumSeeds

\* the reference configuration with its sizes and generation counts scaled
ScaledConfig(population_size) ==
    [ReferenceConfig EXCEPT
        !.POPULATION_SIZE = population_size,
        !.MIN_GENERATIONS = ScaledMinGenerations,
        !.MAX_GENERATIONS = ScaledMaxGenerations,
        !.MUTATION_HALVE_PERIOD = ScaledHalvePeriod]

\* convergence can fire at generation 0
ImmediateConfig(population_size) ==
    [ScaledConfig(population_size) EXCEPT !.MIN_GENERATIONS = 0]

\* convergence never fires: no improvement is both >= 0 and < 0
NeverConvergingConfig(population_size) ==
    [ScaledConfig(population_size) EXCEPT !.IMPROVEMENT_THRESHOLD = Frac(0, 1)]

\* convergence never fires: the loop runs generations below the limit only
LateConfig(population_size) ==
    [ScaledConfig(population_size) EXCEPT !.MIN_GENERATIONS = ScaledMaxGenerations]

\* the mutation rate of the mutation test (src/test_scheduler.py line 28):
\* most children differ from their parents
HighMutationConfig(population_size) ==
    [ScaledConfig(population_size) EXCEPT !.INITIAL_MUTATION_RATE = Frac(1, 2)]

PopulationSizes == {TinyPopulation, ScaledPopulation, ScaledPopulation + 1}

Configs ==
    UNION {{ScaledConfig(n), ImmediateConfig(n), NeverConvergingConfig(n)} :
            n \in PopulationSizes}
    \cup {LateConfig(ScaledPopulation), HighMutationConfig(ScaledPopulation)}

\* trace of a run: the loop evaluations and reproduction steps done so far,
\* the fields resampled in appended children so far, for the current
\* reproduction step the indices carried over and the children appended,
\* and the two tournaments of the last iteration of the fill loop
NoTrace == [op |-> "run", evaluations |-> 0, reproductions |-> 0, mutations |-> 0,
            elite_indices |-> <<>>, offspring |-> 0, tournaments |-> <<>>]

\* a generator state and a configuration whose run evaluates, at
\* MIN_GENERATIONS, a generation after one of average fitness exactly 0
ZeroAverageSeed == 2420

ZeroAverageConfig == [ScaledConfig(ScaledPopulation) EXCEPT !.MIN_GENERATIONS = 5]

\* one more adjustment of the mutation rate than ScaledMaxGenerations allows
LongConfig ==
    [NeverConvergingConfig(ScaledPopulation) EXCEPT
        !.MAX_GENERATIONS = ScaledMaxGenerations + ScaledHalvePeriod]

RunInputs ==
    {[config |-> c, rng |-> s] : c \in Configs, s \in Seeds}
    \cup {[config |-> ZeroAverageConfig, rng |-> ZeroAverageSeed]}
    \cup {[config |-> LongConfig, rng |-> s] : s \in {1}}

Init ==
    /\ catalog = ReferenceCatalog
    /\ \E input \in RunInputs :
        /\ config = input.config
        /\ rng = input.rng
    /\ pc = "start"
    /\ population = <<>>
    /\ generation = 0
    /\ mutation_rate = Frac(0, 1)
    /\ history = <<>>
    /\ previous_avg_fitness = NegInf
    /\ fitness_scores = <<>>
    /\ improvement = Frac(0, 1)
    /\ next_generation = <<>>
    /\ result = <<>>
    /\ trace = NoTrace
    /\ gui = NoGui
    /\ threads = <<>>

Next ==
    \/ InitializePopulation
    \/ EvaluateGeneration
    \/ Elitism
    \/ Reproduce
    \/ ReplacePopulation
    \/ FinalResults

Spec == Init /\ [][Next]_vars

\* the run is one thread that keeps executing until it returns
FairSpec == Spec /\ WF_vars(Next)

-----------------------------------------------------------------------------
(* Runs on other module constants: run_genetic_algorithm() reads the
   parameters and the catalogs as they are, nothing validates them *)

\* two activities of enrollment 10, one room of capacity 10, one time slot,
\* two facilitators, both preferred for both activities
ScenarioCatalog ==
    [ACTIVITIES |-> <<
        Activity("ACT1", 10, <<"Fac1", "Fac2">>, <<>>),
        Activity("ACT2", 10, <<"Fac1", "Fac2">>, <<>>) >>,
     ROOMS |-> << Room("Hall", "1", 10) >>,
     TIMES |-> << "10 AM" >>,
     FACILITATORS |-> << "Fac1", "Fac2" >>]

NoRoomsCatalog == [ReferenceCatalog EXCEPT !.ROOMS = <<>>]

\* a tournament larger than the population, with and without an elite
OversizeTournamentConfig(population_size) ==
    [ScaledConfig(population_size) EXCEPT !.TOURNAMENT_SIZE = population_size + 1]

UncheckedInputs ==
    {[catalog |-> ReferenceCatalog, config |-> c] :
        c \in {ScaledConfig(ScaledPopulation),
               OversizeTournamentConfig(ScaledPopulation),
               OversizeTournamentConfig(TinyPopulation),
               ScaledConfig(1),
               ScaledConfig(0)}}
    \cup {[catalog |-> c, config |-> ScaledConfig(ScaledPopulation)] :
            c \in {ScenarioCatalog, NoRoomsCatalog}}

InitUnchecked ==
    /\ \E input \in UncheckedInputs :
        /\ catalog = input.catalog
        /\ config = input.config
    /\ rng \in Seeds
    /\ pc = "start"
    /\ population = <<>>
    /\ generation = 0
    /\ mutation_rate = Frac(0, 1)
    /\ history = <<>>
    /\ previous_avg_fitness = NegInf
    /\ fitness_scores = <<>>
    /\ improvement = Frac(0, 1)
    /\ next_generation = <<>>
    /\ result = <<>>
    /\ trace = NoTrace
    /\ gui = NoGui
    /\ threads = <<>>

NextUnchecked ==
    \/ InitializePopulation
    \/ InitializePopulationRaises
    \/ EvaluateGeneration
    \/ EvaluateGenerationRaises
    \/ Elitism
    \/ Reproduce
    \/ ReproduceRaises
    \/ ReplacePopulation
    \/ FinalResults

SpecUnchecked == InitUnchecked /\ [][NextUnchecked]_vars

-----------------------------------------------------------------------------
(* The operators on their own, as src/test_scheduler.py (tests 1-4) and    *)
(* src/test_violations.py call them: a few random schedules are created,   *)
(* then one operator is applied and its operands and results are kept in   *)
(* trace.                                                                  *)

\* number of schedules created, and of generator seeds explored
NumSchedules == 3
NumTestSeeds == 24

\* mutation rates: 0.0, INITIAL_MUTATION_RATE, 0.5 (test 3) and 1.0
Rates == {Frac(0, 1), Frac(1, 100), Frac(1, 2), Frac(1, 1)}

InitTest ==
    /\ catalog = ReferenceCatalog
    /\ config = ScaledConfig(NumSchedules)
    /\ \E seed \in 1..NumTestSeeds :
       \E p \in {random_population_from([val |-> <<>>, rng |-> seed], NumSchedules)} :
        /\ population = p.val
        /\ rng = p.rng
    /\ pc = "test"
    /\ generation = 0
    /\ mutation_rate = Frac(0, 1)
    /\ history = <<>>
    /\ previous_avg_fitness = NegInf
    /\ fitness_scores = <<>>
    /\ improvement = Frac(0, 1)
    /\ next_generation = <<>>
    /\ result = <<>>
    /\ trace = [op |-> "none"]
    /\ gui = NoGui
    /\ threads = <<>>

TestFrame == <<catalog, config, population, generation, mutation_rate, history,
               previous_avg_fitness, fitness_scores, improvement,
               next_generation, result>>

\* test_scheduler.py lines 21-24, test_violations.py lines 15-17
TestFitness ==
    /\ pc = "test"
    /\ \E i \in 1..Len(population) :
        trace' = [op |-> "calculate_fitness",
                  schedule |-> population[i],
                  fitness |-> calculate_fitness(population[i]),
                  load_terms |-> [a \in 1..Len(population[i].assignments) |->
                                    total_load_term(population[i], a - 1)],
                  violations |-> get_constraint_violations(population[i]),
                  schedule_after |-> population[i]]
    /\ pc' = "tested"
    /\ UNCHANGED <<rng, TestFrame>>
    /\ UNCHANGED GuiFrame

\* test_scheduler.py lines 26-30
TestMutate ==
    /\ pc = "test"
    /\ \E i \in 1..Len(population), rate \in Rates :
       \E m \in {mutate(population[i], rate, rng)} :
        /\ trace' = [op |-> "mutate", schedule |-> population[i], rate |-> rate,
                     mutated |-> m.val, log |-> m.log, schedule_after |-> m.input]
        /\ rng' = m.rng
    /\ pc' = "tested"
    /\ UNCHANGED TestFrame
    /\ UNCHANGED GuiFrame

\* test_scheduler.py lines 32-39
TestCrossover ==
    /\ pc = "test"
    /\ \E i \in 1..Len(population), j \in 1..Len(population) :
       \E c \in {crossover(population[i], population[j], rng)} :
        /\ trace' = [op |-> "crossover",
                     parent1 |-> population[i], parent2 |-> population[j],
                     children |-> c.val, crossover_point |-> c.crossover_point,
                     parents_after |-> c.parents]
        /\ rng' = c.rng
    /\ pc' = "tested"
    /\ UNCHANGED TestFrame
    /\ UNCHANGED GuiFrame

NextTest ==
    \/ TestFitness
    \/ TestMutate
    \/ TestCrossover

SpecTest == InitTest /\ [][NextTest]_vars

-----------------------------------------------------------------------------
(* Properties of the runs (Spec, FairSpec) *)

\* C1: in every state of a run, every chromosome (of the population, of the
\* next generation being filled, and the best schedule returned) has exactly
\* one gene per activity, in activity order, and each gene's room, time and
\* facilitator index lies within its catalog.
C1_ChromosomesWellFormed ==
    LET in_bounds(gene) ==
            /\ room_of(gene) \in 0..(Len(ROOMS) - 1)
            /\ time_of(gene) \in 0..(Len(TIMES) - 1)
            /\ facilitator_of(gene) \in 0..(Len(FACILITATORS) - 1)
        well_formed(c) ==
            /\ Len(c.assignments) = Len(ACTIVITIES)
            /\ \A i \in 1..Len(c.assignments) :
                /\ c.assignments[i][1] = i - 1
                /\ in_bounds(c.assignments[i])
    IN  /\ \A i \in 1..Len(population) : well_formed(population[i])
        /\ \A i \in 1..Len(next_generation) : well_formed(next_generation[i])
        /\ pc = "done" => well_formed(result.best_schedule)

\* a run of several generations that bred children and resampled fields
C1_Witness ==
    /\ pc = "done"
    /\ generation >= 2
    /\ POPULATION_SIZE >= ELITE_DIVISOR
    /\ trace.offspring > 0
    /\ trace.mutations > 0

\* C2: the best fitness recorded for a generation is never below the best
\* fitness recorded for the generation before it.
C2_BestFitnessNeverDecreases ==
    \A i \in 2..Len(history) :
        /\ history[i].generation = history[i - 1].generation + 1
        /\ history[i].best >= history[i - 1].best

\* a generation in which every bred child scores below the carried elite,
\* which alone keeps the best fitness where it was
C2_Witness ==
    /\ pc = "elitism"
    /\ generation >= 1
    /\ elite_count_of(POPULATION_SIZE) = 1
    /\ \A i \in 2..Len(fitness_scores) : fitness_scores[i] < fitness_scores[1]
    /\ history[Len(history)].best = history[Len(history) - 1].best

\* C3: when the convergence check cannot fire (non-positive threshold, or
\* a generation minimum not below the limit), the run stops exactly when the
\* generation counter equals MAX_GENERATIONS: the counter never passes it,
\* the run is stopped if and only if the counter equals it, and the result
\* reports that generation.
C3_SafetyLimitExact ==
    (IMPROVEMENT_THRESHOLD.num <= 0 \/ MIN_GENERATIONS >= MAX_GENERATIONS) =>
        /\ generation <= MAX_GENERATIONS
        /\ pc # "converged"
        /\ pc \in {"limit", "done"} <=> generation = MAX_GENERATIONS
        /\ pc = "done" => /\ result.generation = MAX_GENERATIONS
                          /\ result.stopped_by = "limit"

\* a run with a zero threshold stopped by the safety limit
C3_Witness ==
    /\ IMPROVEMENT_THRESHOLD.num <= 0
    /\ pc = "done"
    /\ result.stopped_by = "limit"
    /\ generation = MAX_GENERATIONS
    /\ Len(history) = MAX_GENERATIONS

\* C4: with MIN_GENERATIONS = 0 and a positive threshold the run ends after
\* one generation: the loop evaluates the initial population once, records
\* one metrics entry, executes no reproduction step, and the generation
\* counter stays 0.
C4_ConvergesAtFirstGeneration ==
    (MIN_GENERATIONS = 0 /\ IMPROVEMENT_THRESHOLD.num > 0) =>
        /\ pc \in {"start", "loop", "converged", "done"}
        /\ generation = 0
        /\ trace.reproductions = 0
        /\ pc \in {"converged", "done"} =>
                /\ Len(history) = 1
                /\ history[1].generation = 0
                /\ trace.evaluations = 1
                /\ improvement = Frac(0, 1)
        /\ pc = "done" => /\ result.generation = 0
                          /\ result.stopped_by = "converged"

\* such a run, finished
C4_Witness ==
    /\ MIN_GENERATIONS = 0
    /\ IMPROVEMENT_THRESHOLD.num > 0
    /\ pc = "done"
    /\ Len(history) = 1
    /\ Len(population) = POPULATION_SIZE

\* C5: every run ends (by the convergence check or by the safety limit),
\* every fill of the next generation ends, and no run evaluates more than
\* MAX_GENERATIONS generations.
C5_EveryRunTerminates ==
    [](/\ trace.evaluations <= MAX_GENERATIONS
       /\ generation <= MAX_GENERATIONS
       /\ pc = "reproduce" => <>(pc # "reproduce")
       /\ <>(pc = "done" /\ result.stopped_by \in {"converged", "limit"}))

\* a run ended by the convergence check after filling several generations
C5_Witness ==
    /\ pc = "done"
    /\ result.stopped_by = "converged"
    /\ generation >= MIN_GENERATIONS
    /\ generation > 0
    /\ trace.offspring > 0

\* C6, as the specification states it: in each reproduction step exactly
\* POPULATION_SIZE div 10 chromosomes, the best of the population, are
\* carried over unchanged, and when the fill ends the other
\* POPULATION_SIZE - POPULATION_SIZE div 10 slots hold bred children.
C6_ElitismCarriesTenth ==
    pc = "reproduce" =>
        LET elite_indices == trace.elite_indices
            elite_count == POPULATION_SIZE \div ELITE_DIVISOR
        IN  /\ Len(elite_indices) = elite_count
            /\ \A j \in 1..Len(elite_indices) :
                /\ next_generation[j] = At(population, elite_indices[j])
                /\ \A i \in 0..(Len(population) - 1) :
                      Contains(elite_indices, i)
                      \/ At(fitness_scores, i) <= At(fitness_scores, elite_indices[j])
            /\ Len(next_generation) = Len(elite_indices) + trace.offspring
            /\ ~(Len(next_generation) < POPULATION_SIZE) =>
                    trace.offspring = POPULATION_SIZE - elite_count

\* a reproduction step of a population of fewer than 10: the slice
\* [-0:] carries the whole population over and no child is bred
C6_Witness ==
    /\ pc = "reproduce"
    /\ POPULATION_SIZE \div ELITE_DIVISOR = 0
    /\ Len(trace.elite_indices) = POPULATION_SIZE
    /\ next_generation = [j \in 1..POPULATION_SIZE |->
                            At(population, trace.elite_indices[j])]
    /\ ~ENABLED Reproduce

-----------------------------------------------------------------------------
(* Properties of the operators (SpecTest) *)

\* C7, as the code has it: per activity, a facilitator with total load > 4
\* costs 0.5 (10 twentieths) and is counted as overloaded; total load < 3
\* costs 0.4 (8 twentieths) and is counted as underloaded, except that Tyler
\* with a total load below 2 has no penalty; Tyler with total load 2 is
\* penalised like anyone; total load 3 or 4 gives no adjustment.
C7_TotalLoadRule ==
    trace.op = "calculate_fitness" =>
        LET genes == trace.schedule.assignments
            load(a) == Cardinality({b \in 1..Len(genes) :
                            facilitator_of(genes[b]) = facilitator_of(genes[a])})
            exempt(a) == /\ At(FACILITATORS, facilitator_of(genes[a])) = "Tyler"
                         /\ load(a) < 2
            overloaded == {a \in 1..Len(genes) : load(a) > 4}
            underloaded == {a \in 1..Len(genes) : load(a) < 3 /\ ~exempt(a)}
        IN  /\ \A a \in 1..Len(genes) :
                trace.load_terms[a] = IF a \in overloaded THEN -10
                                      ELSE IF a \in underloaded THEN -8 ELSE 0
            /\ trace.violations["facilitator_overload_4plus"] = Cardinality(overloaded)
            /\ trace.violations["facilitator_underload_less3"] = Cardinality(underloaded)

\* a scored schedule in which Tyler oversees exactly two activities
C7_Witness ==
    /\ trace.op = "calculate_fitness"
    /\ \E a \in 1..Len(trace.schedule.assignments) :
        /\ At(FACILITATORS, facilitator_of(trace.schedule.assignments[a])) = "Tyler"
        /\ facilitator_total_activities(trace.schedule)
                [facilitator_of(trace.schedule.assignments[a])] = 2
        /\ trace.load_terms[a] = -8

\* C7, as the specification states it: the exception applies when the
\* facilitator is Tyler and the total load is >= 2.
C7_ExceptionFromTwo ==
    trace.op = "calculate_fitness" =>
        LET genes == trace.schedule.assignments
            load(a) == Cardinality({b \in 1..Len(genes) :
                            facilitator_of(genes[b]) = facilitator_of(genes[a])})
            exempt(a) == /\ At(FACILITATORS, facilitator_of(genes[a])) = "Tyler"
                         /\ load(a) >= 2
            overloaded == {a \in 1..Len(genes) : load(a) > 4}
            underloaded == {a \in 1..Len(genes) : load(a) < 3 /\ ~exempt(a)}
        IN  /\ \A a \in 1..Len(genes) :
                trace.load_terms[a] = IF a \in overloaded THEN -10
                                      ELSE IF a \in underloaded THEN -8 ELSE 0
            /\ trace.violations["facilitator_overload_4plus"] = Cardinality(overloaded)
            /\ trace.violations["facilitator_underload_less3"] = Cardinality(underloaded)

\* C8: the split point k is in 1..N-1; child1 is parent1's genes [0:k]
\* followed by parent2's genes [k:N], child2 is parent2's genes [0:k]
\* followed by parent1's genes [k:N]; two children are returned and the
\* parents are as they were.
C8_CrossoverSplices ==
    trace.op = "crossover" =>
        LET N == Len(ACTIVITIES)
            k == trace.crossover_point
            p1 == trace.parent1.assignments
            p2 == trace.parent2.assignments
        IN  /\ k \in 1..(N - 1)
            /\ Len(trace.children) = 2
            /\ Len(trace.children[1].assignments) = N
            /\ Len(trace.children[2].assignments) = N
            /\ \A i \in 1..N :
                /\ trace.children[1].assignments[i] = IF i <= k THEN p1[i] ELSE p2[i]
                /\ trace.children[2].assignments[i] = IF i <= k THEN p2[i] ELSE p1[i]
            /\ trace.parents_after = <<trace.parent1, trace.parent2>>

\* a crossover of two different parents at the last split point, whose
\* children differ from both parents
C8_Witness ==
    /\ trace.op = "crossover"
    /\ trace.crossover_point = Len(ACTIVITIES) - 1
    /\ trace.children[1] \notin {trace.parent1, trace.parent2}
    /\ trace.children[2] \notin {trace.parent1, trace.parent2}

\* C9: each gene of the schedule mutate returns differs from the input's
\* gene in at most one of room, time, facilitator, and only in a field that
\* was resampled; each gene is resampled at most once, with rate 1 exactly
\* once; the input schedule is as it was.
C9_MutateOneFieldPerGene ==
    trace.op = "mutate" =>
        LET before == trace.schedule.assignments
            after == trace.mutated.assignments
            changed(i) == {f \in 2..4 : after[i][f] # before[i][f]}
            logged(i) == {j \in 1..Len(trace.log) : trace.log[j][1] = i - 1}
        IN  /\ Len(after) = Len(before)
            /\ \A i \in 1..Len(before) :
                /\ after[i][1] = before[i][1]
                /\ Cardinality(changed(i)) <= 1
                /\ Cardinality(logged(i)) <= 1
                /\ \A f \in changed(i) : \E j \in logged(i) : trace.log[j][2] = f - 2
                /\ trace.rate = Frac(1, 1) => Cardinality(logged(i)) = 1
            /\ trace.schedule_after = trace.schedule

\* a mutation with rate 1 that changed some gene and resampled another to
\* the value it had
C9_Witness ==
    /\ trace.op = "mutate"
    /\ trace.rate = Frac(1, 1)
    /\ Len(trace.log) = Len(ACTIVITIES)
    /\ \E i, j \in 1..Len(ACTIVITIES) :
        /\ trace.mutated.assignments[i] # trace.schedule.assignments[i]
        /\ trace.mutated.assignments[j] = trace.schedule.assignments[j]

\* C10: mutate with rate 0 returns a schedule whose genes are the input's.
C10_MutateRateZeroIdentity ==
    (trace.op = "mutate" /\ trace.rate = Frac(0, 1)) =>
        trace.mutated.assignments = trace.schedule.assignments

\* a mutation with rate 0, after which the generator has moved on by one
\* draw per gene
C10_Witness ==
    /\ trace.op = "mutate"
    /\ trace.rate = Frac(0, 1)
    /\ trace.log = <<>>
    /\ Len(trace.mutated.assignments) = Len(ACTIVITIES)

-----------------------------------------------------------------------------
(* The window of src/gui.py.  The Run button calls start_ga_thread on the  *)
(* main thread, which sits in root.mainloop() and keeps serving clicks     *)
(* while the threads it started run.  Each thread executes run_ga, that    *)
(* is run_genetic_algorithm(), on the generator and the files the module   *)
(* shares.  A run is followed here by its draws on the generator and its   *)
(* two output files; its populations play no part.                         *)

\* clicks on the Run button
MaxClicks == 2

\* draws of one run on the generator
MaxDraws == 2

ScriptFrame == <<pc, trace, TestFrame>>

InitGui ==
    /\ catalog = ReferenceCatalog
    /\ config = ReferenceConfig
    /\ rng \in Seeds
    /\ pc = "mainloop"
    /\ population = <<>>
    /\ generation = 0
    /\ mutation_rate = Frac(0, 1)
    /\ history = <<>>
    /\ previous_avg_fitness = NegInf
    /\ fitness_scores = <<>>
    /\ improvement = Frac(0, 1)
    /\ next_generation = <<>>
    /\ result = <<>>
    /\ trace = [op |-> "none"]
    /\ gui = NoGui
    /\ threads = <<>>

\* the thread is inside run_genetic_algorithm()
in_run_genetic_algorithm(thread) ==
    thread.pc \in {"evolve", "print_schedule", "print_fitness_chart",
                   "save_history_open", "save_history"}

\* lines 53-57: a click on the Run button; the button stays enabled and
\* nothing looks at the threads already started
start_ga_thread ==
    /\ Len(threads) < MaxClicks
    /\ gui' = [gui EXCEPT !.status = "Running..."]
    /\ threads' = Append(threads, [pc |-> "run_ga", draws |-> <<>>])
    /\ UNCHANGED <<rng, ScriptFrame>>

\* lines 59-80: the thread patches the chart printer and calls
\* run_genetic_algorithm()
run_ga ==
    \E t \in DOMAIN threads :
        /\ threads[t].pc = "run_ga"
        /\ gui' = [gui EXCEPT !.print_fitness_chart = "gui_chart"]
        /\ threads' = [threads EXCEPT ![t].pc = "evolve"]
        /\ UNCHANGED <<rng, ScriptFrame>>

\* a draw of the run on the module-level generator (genetic_scheduler.py
\* lines 88-90, 450-464, 473, 483)
Draw ==
    \E t \in DOMAIN threads :
        /\ threads[t].pc = "evolve"
        /\ Len(threads[t].draws) < MaxDraws
        /\ rng' = rng_step(rng)
        /\ threads' = [threads EXCEPT ![t].draws = Append(@, rng')]
        /\ UNCHANGED <<gui, ScriptFrame>>

\* genetic_scheduler.py lines 720 and 499: the loop is left and
\* print_schedule opens best_schedule.txt for writing
print_schedule_open ==
    \E t \in DOMAIN threads :
        /\ threads[t].pc = "evolve"
        /\ Len(threads[t].draws) = MaxDraws
        /\ gui' = [gui EXCEPT !.open_files =
                        @ \cup {[thread |-> t, name |-> "best_schedule.txt"]}]
        /\ threads' = [threads EXCEPT ![t].pc = "print_schedule"]
        /\ UNCHANGED <<rng, ScriptFrame>>

\* genetic_scheduler.py lines 499-563: the file is written and closed
print_schedule_close ==
    \E t \in DOMAIN threads :
        /\ threads[t].pc = "print_schedule"
        /\ gui' = [gui EXCEPT !.open_files =
                        @ \ {[thread |-> t, name |-> "best_schedule.txt"]}]
        /\ threads' = [threads EXCEPT ![t].pc = "print_fitness_chart"]
        /\ UNCHANGED <<rng, ScriptFrame>>

\* genetic_scheduler.py lines 724-725 and gui.py lines 64-74: the patched
\* chart printer redraws the plot
print_fitness_chart ==
    \E t \in DOMAIN threads :
        /\ threads[t].pc = "print_fitness_chart"
        /\ threads' = [threads EXCEPT ![t].pc = "save_history_open"]
        /\ UNCHANGED <<rng, gui, ScriptFrame>>

\* genetic_scheduler.py line 730: fitness_history.csv is opened for writing
save_history_open ==
    \E t \in DOMAIN threads :
        /\ threads[t].pc = "save_history_open"
        /\ gui' = [gui EXCEPT !.open_files =
                        @ \cup {[thread |-> t, name |-> "fitness_history.csv"]}]
        /\ threads' = [threads EXCEPT ![t].pc = "save_history"]
        /\ UNCHANGED <<rng, ScriptFrame>>

\* genetic_scheduler.py lines 731-736: the file is written and closed, and
\* run_genetic_algorithm() returns
save_history_close ==
    \E t \in DOMAIN threads :
        /\ threads[t].pc = "save_history"
        /\ gui' = [gui EXCEPT !.open_files =
                        @ \ {[thread |-> t, name |-> "fitness_history.csv"]}]
        /\ threads' = [threads EXCEPT ![t].pc = "returned"]
        /\ UNCHANGED <<rng, ScriptFrame>>

\* gui.py line 82
run_ga_done ==
    \E t \in DOMAIN threads :
        /\ threads[t].pc = "returned"
        /\ gui' = [gui EXCEPT !.status = "Done!"]
        /\ threads' = [threads EXCEPT ![t].pc = "done"]
        /\ UNCHANGED <<rng, ScriptFrame>>

NextGui ==
    \/ start_ga_thread
    \/ run_ga
    \/ Draw
    \/ print_schedule_open
    \/ print_schedule_close
    \/ print_fitness_chart
    \/ save_history_open
    \/ save_history_close
    \/ run_ga_done

SpecGui == InitGui /\ [][NextGui]_vars

-----------------------------------------------------------------------------
(* Properties of the runs, continued (Spec) *)

\* C11: each tournament of the fill loop samples TOURNAMENT_SIZE distinct
\* indices of the population and returns the chromosome at a sampled index
\* whose fitness is the largest of the sample; of several sampled indices
\* with that fitness it is the one drawn first.
C11_TournamentReturnsSampleBest ==
    (pc = "reproduce" /\ trace.offspring > 0) =>
        \A t \in 1..Len(trace.tournaments) :
            LET indices == trace.tournaments[t].tournament_indices
                best_idx == trace.tournaments[t].best_idx
            IN  /\ Len(indices) = TOURNAMENT_SIZE
                /\ \A j \in 1..Len(indices) : indices[j] \in 0..(Len(population) - 1)
                /\ \A j, k \in 1..Len(indices) : indices[j] = indices[k] => j = k
                /\ \E j \in 1..Len(indices) :
                    /\ indices[j] = best_idx
                    /\ \A k \in 1..Len(indices) :
                          At(fitness_scores, indices[k]) <= At(fitness_scores, best_idx)
                    /\ \A k \in 1..(j - 1) :
                          At(fitness_scores, indices[k]) < At(fitness_scores, best_idx)
                /\ trace.tournaments[t].val = At(population, best_idx)

\* a tournament whose sample holds the largest fitness twice, drawn first
\* at the higher of the two indices, with a lower fitness in the sample too
C11_Witness ==
    /\ pc = "reproduce"
    /\ trace.offspring > 0
    /\ \E t \in 1..Len(trace.tournaments) :
        LET indices == trace.tournaments[t].tournament_indices
            best_idx == trace.tournaments[t].best_idx
        IN  /\ \E k \in 1..Len(indices) :
                /\ indices[k] < best_idx
                /\ At(fitness_scores, indices[k]) = At(fitness_scores, best_idx)
            /\ \E k \in 1..Len(indices) :
                At(fitness_scores, indices[k]) < At(fitness_scores, best_idx)
            /\ Len(indices) < Len(population)

\* C14: the run stops by convergence at generation g exactly when
\* g >= MIN_GENERATIONS and 0 <= improvement < IMPROVEMENT_THRESHOLD; it
\* never does so before MIN_GENERATIONS or at a generation whose average
\* fitness fell from a previous average other than 0, and the population
\* returned is the one just evaluated: no reproduction step follows the
\* check.
C14_ConvergenceCheck ==
    LET last == history[Len(history)]
        fell == /\ Len(history) > 1
                /\ FracLess(last.avg, history[Len(history) - 1].avg)
                /\ history[Len(history) - 1].avg.num # 0
        in_range == /\ improvement.num >= 0
                    /\ improvement.num * IMPROVEMENT_THRESHOLD.den
                           < IMPROVEMENT_THRESHOLD.num * improvement.den
    IN  /\ pc \in {"converged", "elitism"} =>
            /\ last.generation = generation
            /\ pc = "converged" <=> (generation >= MIN_GENERATIONS /\ in_range)
            /\ pc = "converged" => generation >= MIN_GENERATIONS /\ ~fell
        /\ (pc \in {"converged", "done"} /\ (pc = "done" => result.stopped_by = "converged")) =>
            /\ trace.reproductions = generation
            /\ trace.evaluations = generation + 1
            /\ Len(fitness_scores) = Len(population)
            /\ \A i \in 1..Len(population) :
                  fitness_scores[i] = calculate_fitness(population[i])
            /\ last.best = MaxSeq(fitness_scores)
        /\ (pc = "done" /\ result.stopped_by = "converged") =>
            /\ result.generation = last.generation
            /\ result.best_fitness_final = last.best
            /\ \E i \in 1..Len(population) : population[i] = result.best_schedule

\* C14 as stated: moreover the run never stops by convergence at a
\* generation whose average fitness fell, whatever the previous average
C14_NeverConvergesAfterFall ==
    /\ C14_ConvergenceCheck
    /\ (pc = "converged" /\ Len(history) > 1) =>
          ~FracLess(history[Len(history)].avg, history[Len(history) - 1].avg)

\* a run that stopped by convergence after MIN_GENERATIONS: at an earlier
\* generation from MIN_GENERATIONS on the average fitness had fallen, an
\* improvement below the threshold, and the run went on
C14_Witness ==
    /\ pc = "done"
    /\ result.stopped_by = "converged"
    /\ result.generation > MIN_GENERATIONS
    /\ \E k \in 2..Len(history) :
        /\ history[k].generation >= MIN_GENERATIONS
        /\ FracLess(history[k].avg, history[k - 1].avg)

\* C15: once set, the mutation rate changes only in the evaluation of a
\* generation g > MUTATION_HALVE_PERIOD with g mod MUTATION_HALVE_PERIOD = 0
\* that does not stop the run, only when the improvement of that generation
\* is below MUTATION_HALVE_TRIGGER and the rate above MUTATION_FLOOR, and
\* then to half its value; every other step leaves it unchanged, and every
\* such evaluation halves it.
C15_RateOnlyHalvedOnPeriod ==
    [][pc # "start" =>
        LET due == /\ pc = "loop"
                   /\ pc' = "elitism"
                   /\ generation > MUTATION_HALVE_PERIOD
                   /\ generation % MUTATION_HALVE_PERIOD = 0
                   /\ improvement'.num * MUTATION_HALVE_TRIGGER.den
                          < MUTATION_HALVE_TRIGGER.num * improvement'.den
                   /\ mutation_rate.num * MUTATION_FLOOR.den
                          > MUTATION_FLOOR.num * mutation_rate.den
        IN  /\ due => mutation_rate' = [num |-> mutation_rate.num,
                                        den |-> 2 * mutation_rate.den]
            /\ ~due => mutation_rate' = mutation_rate
            /\ mutation_rate'.num * mutation_rate.den
                   <= mutation_rate.num * mutation_rate'.den]_vars

\* a finished run whose rate was halved at least twice, and left alone at
\* generation 3 * MUTATION_HALVE_PERIOD, where the improvement was not
\* below the trigger
C15_Witness ==
    /\ pc = "done"
    /\ mutation_rate.den >= 4 * INITIAL_MUTATION_RATE.den
    /\ \E k \in 2..Len(history) :
        /\ history[k].generation = 3 * MUTATION_HALVE_PERIOD
        /\ history[k - 1].avg.num # 0
        /\ ~FracLess(improvement_of(history[k].generation, history[k].avg,
                                    history[k - 1].avg),
                     MUTATION_HALVE_TRIGGER)

\* C16: from its creation on the population holds exactly POPULATION_SIZE
\* chromosomes, at the start of every generation and at termination, for
\* every size; the next generation never holds more, and an iteration of
\* the fill loop appends two children, or one when one slot remains.
C16_PopulationSizeInvariant ==
    /\ [](/\ pc # "start" => Len(population) = POPULATION_SIZE
          /\ Len(next_generation) <= POPULATION_SIZE)
    /\ [][(pc = "reproduce" /\ pc' = "reproduce") =>
            Len(next_generation') - Len(next_generation)
                = (IF POPULATION_SIZE - Len(next_generation) = 1 THEN 1 ELSE 2)]_vars
    /\ [][(pc = "reproduce" /\ pc' # "reproduce") =>
            /\ Len(next_generation) = POPULATION_SIZE
            /\ population' = next_generation]_vars

\* the start of a later generation of a population whose size less its
\* elite is odd: the last iteration of the fill loop appended one child
C16_Witness ==
    /\ pc = "loop"
    /\ generation > 0
    /\ elite_count_of(POPULATION_SIZE) > 0
    /\ (POPULATION_SIZE - elite_count_of(POPULATION_SIZE)) % 2 = 1
    /\ trace.offspring = POPULATION_SIZE - elite_count_of(POPULATION_SIZE)
    /\ Len(population) = POPULATION_SIZE

\* What the runs do at termination: the history holds one entry per
\* evaluated generation, in order from 0, and the reported best fitness is
\* that of the best schedule of the final population.  After convergence at
\* generation g the entries are those of 0..g, the last is that of the
\* reported generation, and the reported best fitness is the one it
\* records.  After the safety limit the reported generation is
\* MAX_GENERATIONS, the entries are those of 0..MAX_GENERATIONS - 1, and
\* the reported best fitness, that of a population whose metrics were not
\* recorded, is not below the last one recorded.
C19_ResultAndHistory ==
    pc = "done" =>
        LET last == history[Len(history)] IN
        /\ \A k \in 1..Len(history) : history[k].generation = k - 1
        /\ result.generation = generation
        /\ result.best_fitness_final = calculate_fitness(result.best_schedule)
        /\ \A i \in 1..Len(population) :
              calculate_fitness(population[i]) <= result.best_fitness_final
        /\ result.stopped_by = "converged" =>
              /\ Len(history) = result.generation + 1
              /\ last.generation = result.generation
              /\ result.best_fitness_final = last.best
        /\ result.stopped_by = "limit" =>
              /\ result.generation = MAX_GENERATIONS
              /\ Len(history) = result.generation
              /\ last.generation = result.generation - 1
              /\ result.best_fitness_final >= last.best

\* C19: at termination, by convergence or by the safety limit, the history
\* holds exactly one entry for each generation 0..final generation, so the
\* last entry is that of the reported generation, and the reported best
\* fitness is the best fitness that entry records.
C19_LastEntryIsReportedGeneration ==
    pc = "done" =>
        /\ \A k \in 1..Len(history) : history[k].generation = k - 1
        /\ Len(history) = result.generation + 1
        /\ history[Len(history)].generation = result.generation
        /\ result.best_fitness_final = history[Len(history)].best

\* a run stopped by the safety limit: the reported generation is
\* MAX_GENERATIONS, the last history entry is that of the generation
\* before, and the scores of the final population are not those recorded
C19_Witness ==
    /\ pc = "done"
    /\ result.stopped_by = "limit"
    /\ result.generation = MAX_GENERATIONS
    /\ history[Len(history)].generation = MAX_GENERATIONS - 1
    /\ fitness_scores # [i \in 1..Len(population) |-> calculate_fitness(population[i])]

\* C20: in a run started with INITIAL_MUTATION_RATE >= MUTATION_FLOOR the
\* mutation rate is never below MUTATION_FLOOR.
C20_RateNeverBelowFloor ==
    (pc # "start" /\ ~FracLess(INITIAL_MUTATION_RATE, MUTATION_FLOOR)) =>
        ~FracLess(mutation_rate, MUTATION_FLOOR)

\* What the runs do: the rate is halved while above the floor, so it stays
\* above half the floor.
C20_RateAboveHalfFloor ==
    (pc # "start" /\ ~FracLess(INITIAL_MUTATION_RATE, MUTATION_FLOOR)) =>
        FracLess(FracHalf(MUTATION_FLOOR), mutation_rate)

\* a run from rate 0.01 with floor 0.0001 after its seventh halving: the
\* rate is 0.01 / 128 = 0.000078125
C20_Witness ==
    /\ INITIAL_MUTATION_RATE = Frac(1, 100)
    /\ MUTATION_FLOOR = Frac(1, 10000)
    /\ pc = "elitism"
    /\ generation = 8 * MUTATION_HALVE_PERIOD
    /\ mutation_rate = Frac(1, 12800)

-----------------------------------------------------------------------------
(* Properties of the runs on other module constants (SpecUnchecked) *)

\* C12: a configuration with a tournament larger than the population, a
\* population below 2 or an empty catalog is rejected with a
\* ConfigurationError before any population is created or any generation
\* runs, and no run fails inside the generational loop.
C12_InvalidConfigurationRejected ==
    /\ (\/ TOURNAMENT_SIZE > POPULATION_SIZE
        \/ POPULATION_SIZE < 2
        \/ 0 \in {Len(ACTIVITIES), Len(ROOMS), Len(TIMES), Len(FACILITATORS)})
       => /\ pc \in {"start", "raised"}
          /\ population = <<>>
          /\ history = <<>>
          /\ pc = "raised" => result.exception = "ConfigurationError"
    /\ pc = "raised" =>
          result.raised_in \notin {"calculate_fitness", "max", "tournament_selection"}

\* a run with a tournament of 11 on a population of 10 that evaluated
\* generation 0 and then failed in the first tournament of the fill loop
C12_Witness ==
    /\ TOURNAMENT_SIZE > POPULATION_SIZE
    /\ pc = "raised"
    /\ result = [exception |-> "ValueError", raised_in |-> "tournament_selection",
                 generation |-> 0]
    /\ Len(population) = POPULATION_SIZE
    /\ Len(history) = 1

\* C13: on the catalog of two activities of enrollment 10, one room of
\* capacity 10, one time slot and two facilitators preferred for both,
\* every schedule is scored without failure, and its score takes -0.5 twice
\* for the room conflict, +0.3 twice for the room fit, +0.5 twice for the
\* preference, and -0.2 per activity for the slot load when both activities
\* have the same facilitator (fitness in twentieths).
C13_ScenarioScoredWithoutFailure ==
    (catalog = ScenarioCatalog /\ population # <<>>) =>
        /\ \A i \in 1..Len(population) :
            LET schedule == population[i]
                acts == {0, 1}
                term(T(_, _)) == T(schedule, 0) + T(schedule, 1)
            IN  /\ Cardinality({a \in acts : room_conflict_term(schedule, a) # 0}) = 2
                /\ term(room_conflict_term) = -20
                /\ term(room_size_term) = 12
                /\ term(preference_term) = 20
                /\ facilitator_of(At(schedule.assignments, 0))
                       = facilitator_of(At(schedule.assignments, 1))
                   => \A a \in acts : slot_load_term(schedule, a) = -4
        /\ pc # "raised"
        /\ pc # "loop" => Len(fitness_scores) = Len(population)

\* the run on that catalog failed scoring generation 0, its population
\* holding a schedule with one facilitator and a schedule with two
C13_Witness ==
    /\ catalog = ScenarioCatalog
    /\ pc = "raised"
    /\ result = [exception |-> "StopIteration", raised_in |-> "calculate_fitness",
                 generation |-> 0]
    /\ \E i, j \in 1..Len(population) :
        /\ facilitator_of(At(population[i].assignments, 0))
               = facilitator_of(At(population[i].assignments, 1))
        /\ facilitator_of(At(population[j].assignments, 0))
               # facilitator_of(At(population[j].assignments, 1))

-----------------------------------------------------------------------------
(* Properties of the operators, continued (SpecTest) *)

\* C17: the room_conflicts count of a schedule is the number of activities
\* that share their time and room with another activity, each of them is
\* charged -0.5 (-10 twentieths), so that k activities in one room at one
\* time count k and cost k * 0.5; the count is never 1.
C17_RoomConflictsPerActivity ==
    trace.op = "calculate_fitness" =>
        LET asg == trace.schedule.assignments
            shares(i, j) == i # j /\ asg[i][2] = asg[j][2] /\ asg[i][3] = asg[j][3]
            sharing == {i \in 1..Len(asg) : \E j \in 1..Len(asg) : shares(i, j)}
        IN  /\ trace.violations["room_conflicts"] = Cardinality(sharing)
            /\ trace.violations["room_conflicts"] # 1
            /\ \A i \in 1..Len(asg) :
                  room_conflict_term(trace.schedule, i - 1)
                      = (IF i \in sharing THEN -10 ELSE 0)
            /\ trace.fitness - SumSeq([i \in 1..Len(asg) |->
                                        activity_fitness(trace.schedule, i - 1)
                                        - room_conflict_term(trace.schedule, i - 1)])
                             - SumOver(DOMAIN facilitator_time_slots(trace.schedule),
                                       [f \in DOMAIN facilitator_time_slots(trace.schedule) |->
                                            consecutive_fitness(trace.schedule, f)])
                             - activity_specific_fitness(trace.schedule)
                   = -10 * Cardinality(sharing)

\* a scored schedule with three activities in one room at one time and two
\* in another: the count is 5, where pairs would count 4
C17_Witness ==
    /\ trace.op = "calculate_fitness"
    /\ trace.violations["room_conflicts"] = 5
    /\ LET asg == trace.schedule.assignments IN
       \E i \in 1..Len(asg) :
          Cardinality({j \in 1..Len(asg) :
                          asg[i][2] = asg[j][2] /\ asg[i][3] = asg[j][3]}) = 3

\* C18: the fitness of a schedule is the sum of the counts of its breakdown
\* weighted by the rule values (in twentieths: -0.5 is -10, +0.25 is 5), the
\* breakdown has exactly the keys of the rules, and scoring leaves the
\* schedule as it was.
C18_FitnessIsWeightedBreakdown ==
    trace.op = "calculate_fitness" =>
        LET weight ==
                [ room_conflicts |-> -10, room_too_small |-> -10,
                  room_too_large_3x |-> -8, room_good_fit |-> 6,
                  facilitator_preferred |-> 10, facilitator_other |-> 4,
                  facilitator_unlisted |-> -2, facilitator_single_slot |-> 4,
                  facilitator_double_booked |-> -4,
                  facilitator_overload_4plus |-> -10,
                  facilitator_underload_less3 |-> -8,
                  facilitator_consecutive_bonus |-> 10,
                  facilitator_consecutive_building_penalty |-> -8,
                  sla101_sections_far_apart |-> 10, sla101_sections_same_time |-> -10,
                  sla191_sections_far_apart |-> 10, sla191_sections_same_time |-> -10,
                  sla101_191_consecutive |-> 10,
                  sla101_191_consecutive_building_penalty |-> -8,
                  sla101_191_separated_1hr |-> 5, sla101_191_same_time |-> -5 ]
                @@ ("room_too_large_1.5x" :> -4)
            keys == DOMAIN weight
        IN  /\ DOMAIN trace.violations = keys
            /\ \A key \in keys : trace.violations[key] \in Nat
            /\ trace.fitness
                 = SumOver(keys, [key \in keys |-> weight[key] * trace.violations[key]])
            /\ trace.schedule_after = trace.schedule

\* a scored schedule that counts under at least twelve rules, among them a
\* room conflict, consecutive slots of a facilitator and a pair of SLA 101
\* and SLA 191 sections an hour apart
C18_Witness ==
    /\ trace.op = "calculate_fitness"
    /\ Cardinality({key \in DOMAIN trace.violations : trace.violations[key] > 0}) >= 12
    /\ trace.violations["room_conflicts"] > 0
    /\ trace.violations["facilitator_consecutive_bonus"] > 0
    /\ trace.violations["sla101_191_separated_1hr"] > 0

-----------------------------------------------------------------------------
(* Properties of the window (SpecGui) *)

\* C21: at most one thread is inside run_genetic_algorithm() at any time,
\* so no two runs draw on the generator or hold an output file open
\* together: the Run button starts no second run while one is running.
C21_AtMostOneRun ==
    /\ Cardinality({t \in DOMAIN threads : in_run_genetic_algorithm(threads[t])}) <= 1
    /\ \A f, g \in gui.open_files : f.name = g.name => f.thread = g.thread

\* two runs both hold best_schedule.txt open for writing, and the first
\* did not get consecutive values of the generator: the second drew in
\* between
C21_Witness ==
    /\ Len(threads) = 2
    /\ \A t \in DOMAIN threads :
          [thread |-> t, name |-> "best_schedule.txt"] \in gui.open_files
    /\ Len(threads[1].draws) = 2
    /\ threads[1].draws[2] # rng_step(threads[1].draws[1])
    /\ threads[2].draws[1] = rng_step(threads[1].draws[1])

=============================================================================
